---- MODULE Spec2Model ----
(***************************************************************************)
(* Model of sjansen/dynamostore: an scs session store kept in a DynamoDB   *)
(* table (dynamostore.go).  Two parts share the module:                    *)
(*   - the session store, Find / Commit / Delete over GetItem / PutItem /  *)
(*     DeleteItem, with the clock and the table's own expiration sweep;    *)
(*   - the table provisioner, CreateTable, as a step machine per caller    *)
(*     over DescribeTable / CreateTable / UpdateTimeToLive.                *)
(* Time is counted in ticks, TicksPerSec ticks to the second, so that the  *)
(* `unixtime` encoding of sessionItem.TTL (whole seconds) is visible.      *)
(***************************************************************************)
EXTENDS Integers, Sequences, FiniteSets, TLC

\* ------------------------------------------------------------------ bounds
TicksPerSec == 3
MaxTime == 3

Tokens == {"", "a", "b"}
Payloads == {<<>>, <<1>>}
Times == 0..MaxTime

\* Go's nil []byte and a returned payload p, kept apart: <<>> and <<p>>.
Nil == <<>>
Some(p) == <<p>>

\* The processes that may call CreateTable.
Callers == {1, 2}

\* const DefaultTableName
DefaultTableName == "scs.session"

\* waitForTable: for i := 0; i < 60; i++
MaxPolls == 60

VARIABLES
    items,      \* the table's items: token -> attribute map (or the empty map)
    now,        \* time.Now(), in ticks
    ret,        \* the last store operation: its results, the backend calls it issued,
                \* and (history) whether its token had an item and how the TTL compared
    opseq,      \* flips on every store operation
    lastWrite,  \* history: per token, the last successful Commit or Delete
    committed,  \* history: the tokens some Commit has been issued for
    inflight,   \* per caller: the PutItem or DeleteItem it has sent and that the
                \* service has not applied yet (concurrent callers only)
    table,      \* the table's status at the service ("ABSENT": there is no table)
    ttl,        \* whether time to live is enabled on the table
    pc,         \* per caller: where its CreateTable call stands
    i,          \* per caller: the loop counter of waitForTable
    path,       \* per caller: who called waitForTable ("found" or "fresh")
    err,        \* per caller: what its CreateTable call returned
    tcalls,     \* per caller: the backend requests of its call, with their results
    prevOk      \* history: per caller, whether its previous CreateTable call
                \* returned no error

storeVars == <<items, now, ret, opseq, lastWrite, committed>>
tableVars == <<table, ttl, pc, i, path, err, tcalls, prevOk>>
vars == <<items, now, ret, opseq, lastWrite, committed, inflight,
          table, ttl, pc, i, path, err, tcalls, prevOk>>

\* --------------------------------------------------------------- the codec
\* `dynamodbav:"ttl,unixtime"`: time.Time is written as t.Unix(), whole seconds.
UnixTime(t) == t \div TicksPerSec

\* ... and read back as time.Unix(n, 0).
FromUnixTime(n) == n * TicksPerSec

\* GetItemOutput.Item when there is no item under the key: the empty map.
EmptyItem == [present |-> FALSE, token |-> "", Data |-> <<>>, ttl |-> 0]

\* The zero sessionItem{} (TTL is the zero time.Time, before every instant).
ZeroSessionItem == [Token |-> "", Data |-> Nil, TTL |-> -1]

\* attributevalue.MarshalMap(&sessionItem{Token, Data, TTL})
MarshalMap(token, data, expiry) ==
    [present |-> TRUE, token |-> token, Data |-> data, ttl |-> UnixTime(expiry)]

\* attributevalue.UnmarshalMap(result.Item, item) into a zero sessionItem
UnmarshalMap(av) ==
    IF av.present
    THEN [Token |-> av.token, Data |-> Some(av.Data), TTL |-> FromUnixTime(av.ttl)]
    ELSE ZeroSessionItem

\* ------------------------------------------------------------- the backend
\* Outcomes of one GetItem / PutItem / DeleteItem round trip.  A key
\* attribute that is the empty string is always rejected by the service;
\* any call may also fail (network, throttling, missing table).
CallOutcomes(key) ==
    IF key = "" THEN {"ValidationException"} ELSE {"nil", "BackendError"}

\* One backend request as the histories record it.
Call(api, key, outcome) == [api |-> api, key |-> key, outcome |-> outcome]

\* ------------------------------------------------------------- the helpers
\* getItem: one strongly consistent GetItem, then UnmarshalMap (which cannot
\* fail on an item MarshalMap wrote, nor on the empty map).
getItemRetry(token, outcome) ==
    [item  |-> IF outcome = "nil" THEN UnmarshalMap(items[token]) ELSE ZeroSessionItem,
     err   |-> outcome,
     calls |-> IF outcome = "nil"
               THEN <<Call("GetItem", token, outcome)>>
               ELSE <<Call("GetItem", token, outcome), Call("GetItem", token, outcome)>>]

getItemNotFound(token, outcome) ==
    [item  |-> IF outcome = "nil" THEN UnmarshalMap(items[token]) ELSE ZeroSessionItem,
     err   |-> IF outcome = "nil" /\ ~items[token].present THEN "NotFound" ELSE outcome,
     calls |-> <<Call("GetItem", token, outcome)>>]

getItem(token, outcome) ==
    [item  |-> IF outcome = "nil" THEN UnmarshalMap(items[token]) ELSE ZeroSessionItem,
     err   |-> outcome,
     calls |-> <<Call("GetItem", token, outcome)>>]

\* setItem: MarshalMap, then one PutItem, which replaces the whole item.
setItemMerge(token, data, expiry, outcome) ==
    [items |-> IF outcome = "nil"
               THEN [items EXCEPT ![token] =
                        IF @.present
                        THEN [@ EXCEPT !.Data = data]
                        ELSE MarshalMap(token, data, expiry)]
               ELSE items,
     err   |-> outcome,
     calls |-> <<Call("PutItem", token, outcome)>>]

setItem(token, data, expiry, outcome) ==
    [items |-> IF outcome = "nil"
               THEN [items EXCEPT ![token] = MarshalMap(token, data, expiry)]
               ELSE items,
     err   |-> outcome,
     calls |-> <<Call("PutItem", token, outcome)>>]

\* deleteItem: one DeleteItem on the key.
deleteItemKeep(token, outcome) ==
    [items |-> items,
     err   |-> outcome,
     calls |-> <<Call("DeleteItem", token, outcome)>>]

\* deleteItem clearing the table instead of the one key.
deleteItemAll(token, outcome) ==
    [items |-> IF outcome = "nil"
               THEN [t \in Tokens |-> EmptyItem]
               ELSE items,
     err   |-> outcome,
     calls |-> <<Call("DeleteItem", token, outcome)>>]

deleteItem(token, outcome) ==
    [items |-> IF outcome = "nil"
               THEN [items EXCEPT ![token] = EmptyItem]
               ELSE items,
     err   |-> outcome,
     calls |-> <<Call("DeleteItem", token, outcome)>>]

\* time.Time.Before
BeforeOrEqual(t, u) == t <= u

Before(t, u) == t < u

\* The switch of Find over getItem's result, at time t.
FindNoExpiry(r, t) ==
    CASE r.err # "nil"         -> [b |-> Nil, exists |-> FALSE, err |-> r.err]
      [] r.item.Token = ""     -> [b |-> Nil, exists |-> FALSE, err |-> "nil"]
      [] OTHER                 -> [b |-> r.item.Data, exists |-> TRUE, err |-> "nil"]

FindResult(r, t) ==
    CASE r.err # "nil"         -> [b |-> Nil, exists |-> FALSE, err |-> r.err]
      [] r.item.Token = ""     -> [b |-> Nil, exists |-> FALSE, err |-> "nil"]
      [] Before(r.item.TTL, t) -> [b |-> Nil, exists |-> FALSE, err |-> "nil"]
      [] OTHER                 -> [b |-> r.item.Data, exists |-> TRUE, err |-> "nil"]

\* Delete's body: nothing at all for the empty token, else deleteItem.
DeleteAlways(token, outcome) == deleteItem(token, outcome)

DeleteResult(token, outcome) ==
    IF token = ""
    THEN [items |-> items, err |-> "nil", calls |-> <<>>]
    ELSE deleteItem(token, outcome)

\* History only: how the decoded TTL of the item Find read stood to the clock
\* ("-" when Find read no item).
Compare(r, t) ==
    CASE r.err # "nil" \/ r.item.Token = "" -> "-"
      [] r.item.TTL < t                     -> "lt"
      [] r.item.TTL = t                     -> "eq"
      [] OTHER                              -> "gt"

NoWrite == [kind |-> "none", data |-> <<>>, expiry |-> 0]

\* No request in flight.
NoRequest == [api |-> "none", key |-> "", data |-> <<>>, expiry |-> 0, over |-> FALSE]

\* ---------------------------------------------------------------- the store
StoreInit ==
    /\ items = [t \in Tokens |-> EmptyItem]
    /\ now = 0
    /\ ret = [op |-> "none", token |-> "", b |-> Nil, exists |-> FALSE,
              err |-> "nil", calls |-> <<>>, cmp |-> "-", had |-> FALSE]
    /\ opseq = 0
    /\ lastWrite = [t \in Tokens |-> NoWrite]
    /\ committed = {}
    /\ inflight = [c \in Callers |-> NoRequest]

Find(token) ==
    \E outcome \in CallOutcomes(token) :
        LET r == getItem(token, outcome)
            res == FindResult(r, now)
        IN  /\ ret' = [op |-> "Find", token |-> token, b |-> res.b,
                       exists |-> res.exists, err |-> res.err, calls |-> r.calls,
                       cmp |-> Compare(r, now), had |-> items[token].present]
            /\ opseq' = 1 - opseq
            /\ UNCHANGED <<items, now, lastWrite, committed>>
            /\ UNCHANGED <<inflight, tableVars>>

Commit(token, data, expiry) ==
    \E outcome \in CallOutcomes(token) :
        LET r == setItem(token, data, expiry, outcome)
        IN  /\ items' = r.items
            /\ ret' = [op |-> "Commit", token |-> token, b |-> Nil, exists |-> FALSE,
                       err |-> r.err, calls |-> r.calls, cmp |-> "-",
                       had |-> items[token].present]
            /\ opseq' = 1 - opseq
            /\ lastWrite' = IF r.err = "nil"
                            THEN [lastWrite EXCEPT ![token] =
                                    [kind |-> "commit", data |-> data, expiry |-> expiry]]
                            ELSE lastWrite
            /\ committed' = committed \cup {token}
            /\ UNCHANGED now
            /\ UNCHANGED <<inflight, tableVars>>

Delete(token) ==
    \E outcome \in CallOutcomes(token) :
        LET r == DeleteResult(token, outcome)
        IN  /\ items' = r.items
            /\ ret' = [op |-> "Delete", token |-> token, b |-> Nil, exists |-> FALSE,
                       err |-> r.err, calls |-> r.calls, cmp |-> "-",
                       had |-> items[token].present]
            /\ opseq' = 1 - opseq
            /\ lastWrite' = IF r.err = "nil" /\ r.calls # <<>>
                            THEN [lastWrite EXCEPT ![token] =
                                    [kind |-> "delete", data |-> <<>>, expiry |-> 0]]
                            ELSE lastWrite
            /\ UNCHANGED <<now, committed>>
            /\ UNCHANGED <<inflight, tableVars>>

\* The clock advances.
Tick ==
    /\ now < MaxTime
    /\ now' = now + 1
    /\ UNCHANGED <<items, ret, opseq, lastWrite, committed>>
    /\ UNCHANGED <<inflight, tableVars>>

\* The table's time-to-live sweep removes an item whose ttl attribute is older
\* than the current epoch second, at a time of its own choosing.
Sweep(token) ==
    /\ ttl
    /\ items[token].present
    /\ items[token].ttl < UnixTime(now)
    /\ items' = [items EXCEPT ![token] = EmptyItem]
    /\ UNCHANGED <<now, ret, opseq, lastWrite, committed>>
    /\ UNCHANGED <<inflight, tableVars>>

\* -------------------------------------------------------------- the table
\* The answers DescribeTable can give: the table's status, not-found when
\* there is no table (and, the call being eventually consistent, possibly
\* right after the table's creation), or some other failure.
DescribeOutcomes ==
    (IF table = "ABSENT" THEN {"NotFound"} ELSE {table})
        \cup (IF table = "CREATING" THEN {"NotFound"} ELSE {})
        \cup {"BackendError"}

\* The answers to the CreateTable request: a table name is created once.
CreateOutcomes ==
    (IF table = "ABSENT" THEN {"nil"} ELSE {"ResourceInUseException"})
        \cup {"BackendError"}

\* The answers to UpdateTimeToLive: it needs an active table on which time to
\* live is not enabled yet.
UpdateTTLOutcomes ==
    (CASE table = "ABSENT"  -> {"ResourceNotFoundException"}
       [] table # "ACTIVE"  -> {"ResourceInUseException"}
       [] ttl               -> {"ValidationException"}
       [] OTHER             -> {"nil"})
        \cup {"BackendError"}

\* checkForTable on DescribeTable's answer: (ok, err), and whether err is to
\* come from waitForTable.
checkForTableActiveMissing(res) ==
    CASE res = "NotFound"     -> [ok |-> FALSE, err |-> "nil", wait |-> FALSE]
      [] res = "BackendError" -> [ok |-> FALSE, err |-> res, wait |-> FALSE]
      [] res = "CREATING"     -> [ok |-> TRUE, err |-> "nil", wait |-> TRUE]
      [] res = "DELETING"     -> [ok |-> FALSE, err |-> "ErrDeleteInProgress", wait |-> FALSE]
      [] res = "UPDATING"     -> [ok |-> TRUE, err |-> "nil", wait |-> FALSE]
      [] res = "ACTIVE"       -> [ok |-> FALSE, err |-> "nil", wait |-> FALSE]
      [] OTHER -> [ok |-> FALSE, err |-> "unrecognized table status", wait |-> FALSE]

checkForTableDeletingMissing(res) ==
    CASE res = "NotFound"     -> [ok |-> FALSE, err |-> "nil", wait |-> FALSE]
      [] res = "BackendError" -> [ok |-> FALSE, err |-> res, wait |-> FALSE]
      [] res = "CREATING"     -> [ok |-> TRUE, err |-> "nil", wait |-> TRUE]
      [] res = "DELETING"     -> [ok |-> FALSE, err |-> "nil", wait |-> FALSE]
      [] res \in {"ACTIVE", "UPDATING"}
                              -> [ok |-> TRUE, err |-> "nil", wait |-> FALSE]
      [] OTHER -> [ok |-> FALSE, err |-> "unrecognized table status", wait |-> FALSE]

checkForTable(res) ==
    CASE res = "NotFound"     -> [ok |-> FALSE, err |-> "nil", wait |-> FALSE]
      [] res = "BackendError" -> [ok |-> FALSE, err |-> res, wait |-> FALSE]
      [] res = "CREATING"     -> [ok |-> TRUE, err |-> "nil", wait |-> TRUE]
      [] res = "DELETING"     -> [ok |-> FALSE, err |-> "ErrDeleteInProgress", wait |-> FALSE]
      [] res \in {"ACTIVE", "UPDATING"}
                              -> [ok |-> TRUE, err |-> "nil", wait |-> FALSE]
      [] OTHER -> [ok |-> FALSE, err |-> "unrecognized table status", wait |-> FALSE]

\* The loop body with the DELETING case left out.
waitForTableSwitchNoDeleting(res) ==
    CASE res = "NotFound"     -> [return |-> TRUE, err |-> "nil"]
      [] res = "BackendError" -> [return |-> TRUE, err |-> res]
      [] res \in {"ACTIVE", "UPDATING"}
                              -> [return |-> TRUE, err |-> "nil"]
      [] OTHER                -> [return |-> FALSE, err |-> "nil"]

\* The loop body with a not-found answer treated as transient.
waitForTableSwitchRetry(res) ==
    CASE res = "NotFound"     -> [return |-> FALSE, err |-> "nil"]
      [] res = "BackendError" -> [return |-> TRUE, err |-> res]
      [] res = "CREATING"     -> [return |-> FALSE, err |-> "nil"]
      [] res = "DELETING"     -> [return |-> TRUE, err |-> "ErrDeleteInProgress"]
      [] res \in {"ACTIVE", "UPDATING"}
                              -> [return |-> TRUE, err |-> "nil"]
      [] OTHER                -> [return |-> FALSE, err |-> "nil"]

\* One iteration of waitForTable's loop on DescribeTable's answer: whether it
\* returns, and what.  A status no case names falls out of the switch and the
\* loop goes on.
waitForTableSwitch(res) ==
    CASE res = "NotFound"     -> [return |-> TRUE, err |-> "nil"]
      [] res = "BackendError" -> [return |-> TRUE, err |-> res]
      [] res = "CREATING"     -> [return |-> FALSE, err |-> "nil"]
      [] res = "DELETING"     -> [return |-> TRUE, err |-> "ErrDeleteInProgress"]
      [] res \in {"ACTIVE", "UPDATING"}
                              -> [return |-> TRUE, err |-> "nil"]
      [] OTHER                -> [return |-> FALSE, err |-> "nil"]

\* The state after construction: the table as the deployment left it, and the
\* callers that will call CreateTable.
TableInit(status, enabled, active) ==
    /\ table = status
    /\ ttl = enabled
    /\ pc = [c \in Callers |-> IF c \in active THEN "idle" ELSE "off"]
    /\ i = [c \in Callers |-> 0]
    /\ path = [c \in Callers |-> "-"]
    /\ err = [c \in Callers |-> "nil"]
    /\ tcalls = [c \in Callers |-> <<>>]
    /\ prevOk = [c \in Callers |-> FALSE]

\* CreateTable returns e to caller c.
Return(c, e) ==
    /\ pc' = [pc EXCEPT ![c] = "done"]
    /\ err' = [err EXCEPT ![c] = e]

\* Caller c records a backend request and its answer.
Record(c, api, res) ==
    tcalls' = [tcalls EXCEPT ![c] = Append(@, Call(api, DefaultTableName, res))]

\* Caller c calls CreateTable.
CreateTable(c) ==
    /\ pc[c] \in {"idle", "done"}
    /\ pc' = [pc EXCEPT ![c] = "check"]
    /\ prevOk' = [prevOk EXCEPT ![c] = (pc[c] = "done" /\ err[c] = "nil")]
    /\ err' = [err EXCEPT ![c] = "nil"]
    /\ tcalls' = [tcalls EXCEPT ![c] = <<>>]
    /\ i' = [i EXCEPT ![c] = 0]
    /\ path' = [path EXCEPT ![c] = "-"]
    /\ UNCHANGED <<table, ttl>>
    /\ UNCHANGED <<storeVars, inflight>>

\* CreateTable's call of checkForTable, up to its DescribeTable.
CheckForTable(c) ==
    /\ pc[c] = "check"
    /\ \E res \in DescribeOutcomes :
         LET r == checkForTable(res)
         IN  /\ Record(c, "DescribeTable", res)
             /\ CASE r.wait       -> /\ pc' = [pc EXCEPT ![c] = "wait"]
                                     /\ path' = [path EXCEPT ![c] = "found"]
                                     /\ UNCHANGED err
                  [] r.err # "nil" -> Return(c, r.err) /\ UNCHANGED path
                  [] r.ok          -> Return(c, "nil") /\ UNCHANGED path
                  [] OTHER         -> /\ pc' = [pc EXCEPT ![c] = "create"]
                                      /\ UNCHANGED <<err, path>>
    /\ UNCHANGED <<table, ttl, i, prevOk>>
    /\ UNCHANGED <<storeVars, inflight>>

\* createTable: the CreateTable request.
createTable(c) ==
    /\ pc[c] = "create"
    /\ \E res \in CreateOutcomes :
         /\ Record(c, "CreateTable", res)
         /\ IF res = "nil"
            THEN /\ table' = "CREATING"
                 /\ ttl' = FALSE
                 /\ pc' = [pc EXCEPT ![c] = "wait"]
                 /\ path' = [path EXCEPT ![c] = "fresh"]
                 /\ UNCHANGED err
            ELSE /\ Return(c, res)
                 /\ UNCHANGED <<table, ttl, path>>
    /\ UNCHANGED <<i, prevOk>>
    /\ UNCHANGED <<storeVars, inflight>>

\* waitForTable's return, as it would be were updateTTL not kept to the
\* fresh-create path.
WaitReturnsThenTTL(c, e) ==
    IF e = "nil"
    THEN pc' = [pc EXCEPT ![c] = "updateTTL"] /\ UNCHANGED err
    ELSE Return(c, e)

\* waitForTable returns e: to checkForTable, whose (true, e) ends CreateTable,
\* or to CreateTable, which goes on to updateTTL when e is nil.
WaitReturns(c, e) ==
    IF e = "nil" /\ path[c] = "fresh"
    THEN pc' = [pc EXCEPT ![c] = "updateTTL"] /\ UNCHANGED err
    ELSE Return(c, e)

\* One iteration of waitForTable's loop: sleep, DescribeTable, switch; after
\* the last iteration the loop ends in ErrCreateTimedOut.
waitForTable(c) ==
    /\ pc[c] = "wait"
    /\ i[c] < MaxPolls
    /\ \E res \in DescribeOutcomes :
         LET w == waitForTableSwitch(res)
         IN  /\ Record(c, "DescribeTable", res)
             /\ i' = [i EXCEPT ![c] = @ + 1]
             /\ CASE w.return              -> WaitReturns(c, w.err)
                  [] i[c] + 1 = MaxPolls   -> WaitReturns(c, "ErrCreateTimedOut")
                  [] OTHER                 -> UNCHANGED <<pc, err>>
    /\ UNCHANGED <<table, ttl, path, prevOk>>
    /\ UNCHANGED <<storeVars, inflight>>

\* updateTTL: the UpdateTimeToLive request, whose result CreateTable returns.
updateTTL(c) ==
    /\ pc[c] = "updateTTL"
    /\ \E res \in UpdateTTLOutcomes :
         /\ Record(c, "UpdateTimeToLive", res)
         /\ ttl' = (ttl \/ res = "nil")
         /\ Return(c, res)
    /\ UNCHANGED <<table, i, path, prevOk>>
    /\ UNCHANGED <<storeVars, inflight>>

\* The service finishes what it has under way.
BackendProgress ==
    /\ table \in {"CREATING", "UPDATING", "DELETING"}
    /\ table' = IF table = "DELETING" THEN "ABSENT" ELSE "ACTIVE"
    /\ ttl' = (ttl /\ table # "DELETING")
    /\ UNCHANGED <<pc, i, path, err, tcalls, prevOk>>
    /\ UNCHANGED <<storeVars, inflight>>

\* Someone else acts on the active table: deletes it, updates it, or its
\* encryption key becomes inaccessible (and accessible again).
ExternalChange ==
    /\ \/ /\ table = "ACTIVE"
          /\ table' \in {"DELETING", "UPDATING", "INACCESSIBLE_ENCRYPTION_CREDENTIALS"}
       \/ /\ table = "INACCESSIBLE_ENCRYPTION_CREDENTIALS"
          /\ table' = "ACTIVE"
    /\ UNCHANGED <<ttl, pc, i, path, err, tcalls, prevOk>>
    /\ UNCHANGED <<storeVars, inflight>>

\* ------------------------------------------------------ the specifications
\* The store on its table, provisioned beforehand.
Init == StoreInit /\ TableInit("ACTIVE", TRUE, {})

Next ==
    \/ \E token \in Tokens : Find(token)
    \/ \E token \in Tokens, data \in Payloads, expiry \in Times : Commit(token, data, expiry)
    \/ \E token \in Tokens : Delete(token)
    \/ Tick
    \/ \E token \in Tokens : Sweep(token)

Spec == Init /\ [][Next]_vars

\* One process calling CreateTable, again and again, on a table others may
\* touch.
TableInitOne == StoreInit /\ TableInit("ABSENT", FALSE, {1})

TableNext ==
    \/ \E c \in Callers : CreateTable(c)
    \/ \E c \in Callers : CheckForTable(c)
    \/ \E c \in Callers : createTable(c)
    \/ \E c \in Callers : waitForTable(c)
    \/ \E c \in Callers : updateTTL(c)
    \/ BackendProgress
    \/ ExternalChange

TableSpec == TableInitOne /\ [][TableNext]_vars

\* ------------------------------------------------- the store's properties
\* A store operation has just returned.
OpStep == opseq' # opseq

\* Every backend call of the operation succeeded.
BackendOk(r) == \A k \in DOMAIN r.calls : r.calls[k].outcome = "nil"

\* What Commit stores for an expiry, as an instant.
StoredExpiry(expiry) == FromUnixTime(UnixTime(expiry))

\* C1: a successful commit(token, payload, expiry) with expiry later than the
\* clock, followed by find(token) while the clock is still before expiry and
\* nothing else was written under the token, returns exists=true and exactly
\* the committed payload.
C1_CommitThenFind ==
    ( /\ ret.op = "Find"
      /\ BackendOk(ret)
      /\ lastWrite[ret.token].kind = "commit"
      /\ now < lastWrite[ret.token].expiry )
    => ( /\ ret.err = "nil"
         /\ ret.exists
         /\ ret.b = Some(lastWrite[ret.token].data) )

\* C2: once the clock is later than the stored expiry of a committed record,
\* find(token) returns exists=false, no payload and no error, whether the item
\* is still in the table or the sweep has removed it, and without any delete.
C2_ExpiredIsAbsent ==
    [][ ( /\ OpStep
          /\ ret'.op = "Find"
          /\ BackendOk(ret')
          /\ lastWrite[ret'.token].kind = "commit"
          /\ StoredExpiry(lastWrite[ret'.token].expiry) < now )
        => ( /\ ret'.err = "nil"
             /\ ~ret'.exists
             /\ ret'.b = Nil ) ]_vars

\* C2's case: find reads an item that is still in the table, whose expiry has
\* passed and which nobody deleted, and reports it absent.
C2_Witness ==
    /\ ret.op = "Find"
    /\ ret.had
    /\ ret.cmp = "lt"
    /\ lastWrite[ret.token].kind = "commit"
    /\ ~ret.exists

\* C3: a successful commit to a token that already holds a record leaves under
\* the token exactly the item of the new (payload, expiry) pair, whatever the
\* old one was; and a find that reports a record reports the payload of the
\* last commit, alive by the expiry of the last commit.
C3_CommitReplaces ==
    [][ /\ ( /\ OpStep
             /\ ret'.op = "Commit"
             /\ ret'.err = "nil"
             /\ ret'.had )
           => items'[ret'.token] =
                 MarshalMap(ret'.token, lastWrite'[ret'.token].data,
                            lastWrite'[ret'.token].expiry)
        /\ ( /\ OpStep
             /\ ret'.op = "Find"
             /\ ret'.exists )
           => /\ lastWrite[ret'.token].kind = "commit"
              /\ ret'.b = Some(lastWrite[ret'.token].data)
              /\ ~(StoredExpiry(lastWrite[ret'.token].expiry) < now) ]_vars

\* C3's case: a second commit has just succeeded on a token that held a record.
C3_Witness ==
    /\ ret.op = "Commit"
    /\ ret.err = "nil"
    /\ ret.had
    /\ items[ret.token].present

\* C4: delete(token) on a non-empty token returns exactly what its one
\* DeleteItem returned, record or no record; when that is no error the token
\* holds no item afterwards, a repeated delete changes nothing, and until the
\* next commit to the token find returns exists=false, no payload, no error.
C4_DeleteIdempotent ==
    [][ /\ ( /\ OpStep
             /\ ret'.op = "Delete"
             /\ ret'.token # "" )
           => /\ Len(ret'.calls) = 1
              /\ ret'.err = ret'.calls[1].outcome
              /\ BackendOk(ret') => ~items'[ret'.token].present
              /\ (BackendOk(ret') /\ lastWrite[ret'.token].kind = "delete")
                    => items' = items
        /\ ( /\ OpStep
             /\ ret'.op = "Find"
             /\ BackendOk(ret')
             /\ lastWrite[ret'.token].kind = "delete" )
           => ( /\ ret'.err = "nil"
                /\ ~ret'.exists
                /\ ret'.b = Nil ) ]_vars

\* C4's case: a delete of a token that holds no record and was never
\* committed has returned no error.
C4_Witness ==
    /\ ret.op = "Delete"
    /\ ret.token # ""
    /\ ret.token \notin committed
    /\ ~ret.had
    /\ ret.err = "nil"
    /\ lastWrite[ret.token].kind = "delete"

\* C5: find(token) of a token no commit was ever issued for returns
\* exists=false, a nil payload and no error (its GetItem having succeeded).
C5_NeverCommitted ==
    ( /\ ret.op = "Find"
      /\ ret.token \notin committed
      /\ BackendOk(ret) )
    => ( /\ ret.err = "nil"
         /\ ~ret.exists
         /\ ret.b = Nil )

\* C5's case: such a find has returned, its GetItem answered.
C5_Witness ==
    /\ ret.op = "Find"
    /\ ret.token \notin committed
    /\ Len(ret.calls) = 1
    /\ BackendOk(ret)

\* C6: delete("") returns no error, issues no backend call and leaves every
\* item as it was.
C6_DeleteEmptyToken ==
    [][ ( /\ OpStep
          /\ ret'.op = "Delete"
          /\ ret'.token = "" )
        => ( /\ ret'.err = "nil"
             /\ ret'.calls = <<>>
             /\ items' = items ) ]_vars

\* C6's case: delete("") has returned while the table holds a record.
C6_Witness ==
    /\ ret.op = "Delete"
    /\ ret.token = ""
    /\ \E t \in Tokens : items[t].present

\* C9, as claimed: when find reads an item whose decoded expiry equals the
\* current time, it returns exists=false, no payload and no error.
C9_BoundaryExpired ==
    (ret.op = "Find" /\ ret.cmp = "eq")
    => ( /\ ret.err = "nil"
         /\ ~ret.exists
         /\ ret.b = Nil )

\* C9, amended: when find reads an item whose decoded expiry equals the
\* current time, it returns exists=true with the item's payload and no error;
\* find reports a read item absent only when the decoded expiry is strictly
\* earlier than the current time.
C9_BoundaryLive ==
    /\ (ret.op = "Find" /\ ret.cmp = "eq")
       => ( /\ ret.err = "nil"
            /\ ret.exists
            /\ ret.b = Some(lastWrite[ret.token].data) )
    /\ (ret.op = "Find" /\ ret.cmp = "lt")
       => ( /\ ret.err = "nil"
            /\ ~ret.exists
            /\ ret.b = Nil )

\* C9's case: find has read an item whose decoded expiry is the current time.
C9_Witness ==
    /\ ret.op = "Find"
    /\ ret.cmp = "eq"
    /\ lastWrite[ret.token].kind = "commit"

\* C10: find, commit and delete issue exactly one backend call each (delete("")
\* none), on their own token; when the call fails, its failure is the
\* operation's error, find returns it with exists=false and no payload, and no
\* item is changed.
C10_OneCallNoRetry ==
    [][ OpStep =>
          /\ Len(ret'.calls) = IF ret'.op = "Delete" /\ ret'.token = "" THEN 0 ELSE 1
          /\ \A k \in DOMAIN ret'.calls :
                /\ ret'.calls[k].key = ret'.token
                /\ ret'.calls[k].api = CASE ret'.op = "Find"   -> "GetItem"
                                         [] ret'.op = "Commit" -> "PutItem"
                                         [] OTHER              -> "DeleteItem"
          /\ ~BackendOk(ret') =>
                /\ ret'.err = ret'.calls[1].outcome
                /\ ~ret'.exists
                /\ ret'.b = Nil
                /\ items' = items ]_vars

\* C10's case: a find of a token that holds an item has failed at the backend.
C10_Witness ==
    /\ ret.op = "Find"
    /\ ret.had
    /\ ret.err = "BackendError"

\* ------------------------------------------------- the table's properties
\* C7: a CreateTable call that follows a call of the same caller that returned
\* no error, and whose DescribeTable finds the table active, returns no error
\* and issues nothing but that DescribeTable: no CreateTable request and no
\* UpdateTimeToLive.
C7_SecondCallNoop ==
    \A c \in Callers :
        ( /\ pc[c] = "done"
          /\ prevOk[c]
          /\ tcalls[c][1].outcome = "ACTIVE" )
        => ( /\ err[c] = "nil"
             /\ tcalls[c] = <<Call("DescribeTable", DefaultTableName, "ACTIVE")>> )

\* C7's case: the caller's earlier call created the table and enabled time to
\* live, and its next call has returned after finding the table active.
C7_Witness ==
    \E c \in Callers :
        /\ pc[c] = "done"
        /\ prevOk[c]
        /\ ttl
        /\ tcalls[c][1].outcome = "ACTIVE"

\* C8: a CreateTable call whose first DescribeTable reports the status
\* DELETING returns ErrDeleteInProgress and issues no other request.
C8_DeleteInProgress ==
    \A c \in Callers :
        ( /\ pc[c] = "done"
          /\ tcalls[c][1].outcome = "DELETING" )
        => ( /\ err[c] = "ErrDeleteInProgress"
             /\ tcalls[c] = <<Call("DescribeTable", DefaultTableName, "DELETING")>> )

\* C8's case: a call has returned whose first DescribeTable found the table
\* being deleted.
C8_Witness ==
    \E c \in Callers :
        /\ pc[c] = "done"
        /\ tcalls[c][1].outcome = "DELETING"

\* The polls of caller c's call: the positions in tcalls[c] of the
\* DescribeTable requests that waitForTable issued.
Polls(c) ==
    {k \in DOMAIN tcalls[c] : k > 1 /\ tcalls[c][k].api = "DescribeTable"}

\* C11: whenever CreateTable returns without error, some DescribeTable of that
\* call reported the table in the status ACTIVE or UPDATING.
C11_NilMeansActive ==
    \A c \in Callers :
        (pc[c] = "done" /\ err[c] = "nil")
        => \E k \in DOMAIN tcalls[c] :
              /\ tcalls[c][k].api = "DescribeTable"
              /\ tcalls[c][k].outcome \in {"ACTIVE", "UPDATING"}

\* --------------------------------------------------- two callers at startup
\* Two processes start at once on an absent table and call CreateTable once
\* each; nobody else touches the table.
RaceInit == StoreInit /\ TableInit("ABSENT", FALSE, Callers)

RaceNext ==
    \/ \E c \in Callers : pc[c] = "idle" /\ CreateTable(c)
    \/ \E c \in Callers : CheckForTable(c)
    \/ \E c \in Callers : createTable(c)
    \/ \E c \in Callers : waitForTable(c)
    \/ \E c \in Callers : updateTTL(c)
    \/ BackendProgress

RaceSpec == RaceInit /\ [][RaceNext]_vars

\* The backend answered caller c normally throughout: no request of its call
\* failed for a reason of the backend's own, and the table became active
\* within the poll window.
BehavedNormally(c) ==
    /\ \A k \in DOMAIN tcalls[c] : tcalls[c][k].outcome # "BackendError"
    /\ \A k \in Polls(c) : tcalls[c][k].outcome # "NotFound"
    /\ err[c] # "ErrCreateTimedOut"

\* C12: when two callers run CreateTable concurrently against an initially
\* absent table, and the backend behaves normally apart from accepting only
\* one CreateTable request for the name, both calls return without error.
C12_ConcurrentStartup ==
    (\A c \in Callers : pc[c] = "done" /\ BehavedNormally(c))
    => (\A c \in Callers : err[c] = "nil")

\* C14: within one CreateTable call the requests come in the order
\* DescribeTable, CreateTable, polling DescribeTables, UpdateTimeToLive: the
\* first request is a DescribeTable; a CreateTable request is the second
\* request and follows a not-found; UpdateTimeToLive is the last request,
\* issued at most once, after this call's CreateTable request succeeded and
\* the polls ended without error, and its result is what the call returns; a
\* call that found the table (creating, active or updating) issues nothing but
\* DescribeTables.
C14_RequestOrder ==
    \A c \in Callers :
        LET s == tcalls[c]
        IN  /\ s # <<>> => s[1].api = "DescribeTable"
            /\ \A k \in DOMAIN s :
                  s[k].api = "CreateTable" =>
                      /\ k = 2
                      /\ s[1].outcome = "NotFound"
            /\ \A k \in DOMAIN s :
                  s[k].api = "UpdateTimeToLive" =>
                      /\ k = Len(s)
                      /\ k >= 4
                      /\ s[2].api = "CreateTable"
                      /\ s[2].outcome = "nil"
                      /\ \A j \in 3..(k - 1) : s[j].api = "DescribeTable"
                      /\ s[k - 1].outcome \in {"ACTIVE", "UPDATING", "NotFound"}
                      /\ pc[c] = "done"
                      /\ err[c] = s[k].outcome
            /\ (s # <<>> /\ s[1].outcome \in {"CREATING", "ACTIVE", "UPDATING"})
                  => \A k \in DOMAIN s : s[k].api = "DescribeTable"
            /\ pc[c] = "updateTTL" => s[Len(s)].api = "DescribeTable"

\* C14's case: a call on the fresh-create path has issued its
\* UpdateTimeToLive, which failed, and has returned that failure.
C14_Witness ==
    \E c \in Callers :
        /\ pc[c] = "done"
        /\ tcalls[c][Len(tcalls[c])].api = "UpdateTimeToLive"
        /\ err[c] = "BackendError"

\* What waitForTable returned to caller c, once it has: nil when CreateTable
\* went on to updateTTL, else what CreateTable returned.
WaitResult(c) ==
    IF pc[c] = "updateTTL" \/ tcalls[c][Len(tcalls[c])].api = "UpdateTimeToLive"
    THEN "nil"
    ELSE err[c]

\* The last poll of caller c's call, when it has polled: its last request
\* but for the UpdateTimeToLive.
LastPoll(c) ==
    IF tcalls[c][Len(tcalls[c])].api = "UpdateTimeToLive"
    THEN Len(tcalls[c]) - 1
    ELSE Len(tcalls[c])

\* The loop of waitForTable is bounded and stops as its switch says.
C15_Bounded ==
    \A c \in Callers :
        /\ Cardinality(Polls(c)) = i[c]
        /\ i[c] <= MaxPolls
        /\ pc[c] = "wait" => i[c] < MaxPolls
        /\ \A k \in Polls(c) :
              (k # LastPoll(c) \/ pc[c] = "wait") =>
                  tcalls[c][k].outcome \notin
                      {"ACTIVE", "UPDATING", "DELETING", "BackendError"}
        /\ (pc[c] \in {"updateTTL", "done"} /\ Polls(c) # {}) =>
              LET last == tcalls[c][LastPoll(c)].outcome
              IN  /\ last \in {"ACTIVE", "UPDATING"} => WaitResult(c) = "nil"
                  /\ last = "DELETING" => WaitResult(c) = "ErrDeleteInProgress"
                  /\ last = "BackendError" => WaitResult(c) = "BackendError"
                  /\ last = "CREATING" =>
                        /\ i[c] = MaxPolls
                        /\ WaitResult(c) = "ErrCreateTimedOut"

\* A step of caller c's call in progress.
CallStep(c) == CheckForTable(c) \/ createTable(c) \/ waitForTable(c) \/ updateTTL(c)

\* How many steps caller c's call can still take, at most.
StepsLeft(c) ==
    CASE pc[c] = "check"     -> MaxPolls + 3
      [] pc[c] = "create"    -> MaxPolls + 2
      [] pc[c] = "wait"      -> MaxPolls - i[c] + 1
      [] pc[c] = "updateTTL" -> 1
      [] OTHER               -> 0

\* C15: waitForTable issues at most 60 DescribeTables: it polls on while the
\* status is CREATING, stops with nil on the first ACTIVE or UPDATING, with
\* ErrDeleteInProgress on the first DELETING, with the error on a failure other
\* than not-found, and with ErrCreateTimedOut after 60 polls; and every
\* CreateTable call terminates: a call in progress can always take its next
\* step, and each step leaves it fewer steps to take.
C15_WaitTerminates ==
    /\ []C15_Bounded
    /\ [](\A c \in Callers :
             pc[c] \in {"check", "create", "wait", "updateTTL"} => ENABLED CallStep(c))
    /\ [][\A c \in Callers :
             (pc[c] \in {"check", "create", "wait", "updateTTL"}
                 /\ <<pc[c], i[c]>>' # <<pc[c], i[c]>>)
             => StepsLeft(c)' < StepsLeft(c)]_vars

\* C15's case: all 60 polls reported CREATING and the call has returned
\* ErrCreateTimedOut.
C15_Witness ==
    \E c \in Callers :
        /\ pc[c] = "done"
        /\ i[c] = MaxPolls
        /\ \A k \in Polls(c) : tcalls[c][k].outcome = "CREATING"
        /\ err[c] = "ErrCreateTimedOut"

\* The table statuses the code names.
KnownStatuses == {"CREATING", "DELETING", "ACTIVE", "UPDATING"}

\* Request k of caller c's call is a DescribeTable that reported a status
\* outside the known ones.
Unrecognized(c, k) ==
    /\ tcalls[c][k].api = "DescribeTable"
    /\ tcalls[c][k].outcome \notin KnownStatuses \cup {"NotFound", "BackendError"}

\* C16: a DescribeTable of a CreateTable call, the first or a poll, that
\* reports a status outside CREATING, DELETING, ACTIVE, UPDATING ends the call
\* there with the unrecognized-status error: it is the call's last request.
C16_UnrecognizedIsFatal ==
    \A c \in Callers :
        \A k \in DOMAIN tcalls[c] :
            Unrecognized(c, k) =>
                /\ k = Len(tcalls[c])
                /\ pc[c] = "done"
                /\ err[c] = "unrecognized table status"

\* C17: a not-found answer to a poll of waitForTable does not end the loop:
\* while fewer than 60 polls have been made, the call is still polling.
C17_NotFoundIsTransient ==
    \A c \in Callers :
        ( /\ Polls(c) # {}
          /\ tcalls[c][LastPoll(c)].outcome = "NotFound"
          /\ i[c] < MaxPolls )
        => pc[c] = "wait"

\* C18: a not-found answer to a poll of waitForTable ends the loop at once
\* without error: it is the call's last DescribeTable; on the found-creating
\* path CreateTable has then returned nil, and on the fresh-create path it
\* goes on to UpdateTimeToLive and returns that request's result.
C18_NotFoundEndsWait ==
    \A c \in Callers :
        \A k \in Polls(c) :
            tcalls[c][k].outcome = "NotFound" =>
                /\ k = LastPoll(c)
                /\ path[c] = "found" =>
                      /\ k = Len(tcalls[c])
                      /\ pc[c] = "done"
                      /\ err[c] = "nil"
                /\ path[c] = "fresh" =>
                      \/ /\ k = Len(tcalls[c])
                         /\ pc[c] = "updateTTL"
                      \/ /\ k + 1 = Len(tcalls[c])
                         /\ tcalls[c][k + 1].api = "UpdateTimeToLive"
                         /\ pc[c] = "done"
                         /\ err[c] = tcalls[c][k + 1].outcome

\* C18's case: a call that found the table being created has polled, got
\* not-found, and returned nil.
C18_Witness ==
    \E c \in Callers :
        /\ pc[c] = "done"
        /\ path[c] = "found"
        /\ tcalls[c][Len(tcalls[c])].outcome = "NotFound"
        /\ err[c] = "nil"

\* C19: commit(t, ...) and delete(t) leave the item of every other token as
\* it was, find changes no item at all (an expired one included), and none of
\* the three changes the table's status or its time-to-live setting.
C19_OwnTokenOnly ==
    [][ OpStep =>
          /\ \A u \in Tokens \ {ret'.token} : items'[u] = items[u]
          /\ ret'.op = "Find" => items' = items
          /\ table' = table
          /\ ttl' = ttl ]_vars

\* C19's case: a delete has removed its token's record while another token
\* holds one.
C19_Witness ==
    /\ ret.op = "Delete"
    /\ ret.had
    /\ ret.err = "nil"
    /\ \E u \in Tokens \ {ret.token} : items[u].present

\* C20: the item a successful commit(token, payload, expiry) wrote decodes on
\* read back to the same token, the same payload and exactly the same expiry
\* instant, sub-second part included.
C20_RoundTrip ==
    ( /\ ret.op = "Commit"
      /\ ret.err = "nil"
      /\ items[ret.token].present )
    => UnmarshalMap(items[ret.token]) =
          [Token |-> ret.token,
           Data  |-> Some(lastWrite[ret.token].data),
           TTL   |-> lastWrite[ret.token].expiry]

\* ------------------------------------------- concurrent callers, one token
\* The store holds no lock: callers commit to and delete the same token at
\* the same time, each call being one request that the service applies
\* atomically at a moment of its own.
Contended == "a"

\* Commit, up to the sending of its PutItem.
SendCommit(c, data, expiry) ==
    /\ inflight[c] = NoRequest
    /\ inflight' = [inflight EXCEPT ![c] =
                       [api |-> "PutItem", key |-> Contended, data |-> data,
                        expiry |-> expiry,
                        over |-> \E d \in Callers \ {c} : inflight[d] # NoRequest]]
    /\ committed' = committed \cup {Contended}
    /\ UNCHANGED <<items, now, ret, opseq, lastWrite>>
    /\ UNCHANGED tableVars

\* Delete (of a non-empty token), up to the sending of its DeleteItem.
SendDelete(c) ==
    /\ inflight[c] = NoRequest
    /\ inflight' = [inflight EXCEPT ![c] =
                       [api |-> "DeleteItem", key |-> Contended, data |-> <<>>,
                        expiry |-> 0,
                        over |-> \E d \in Callers \ {c} : inflight[d] # NoRequest]]
    /\ UNCHANGED <<items, now, ret, opseq, lastWrite, committed>>
    /\ UNCHANGED tableVars

\* The service applies caller c's request, and c's Commit or Delete returns.
Apply(c) ==
    /\ inflight[c] # NoRequest
    /\ \E outcome \in CallOutcomes(inflight[c].key) :
         LET q == inflight[c]
             r == IF q.api = "PutItem"
                  THEN setItem(q.key, q.data, q.expiry, outcome)
                  ELSE deleteItem(q.key, outcome)
         IN  /\ items' = r.items
             /\ ret' = [op |-> IF q.api = "PutItem" THEN "Commit" ELSE "Delete",
                        token |-> q.key, b |-> Nil, exists |-> FALSE,
                        err |-> r.err, calls |-> r.calls, cmp |-> "-",
                        had |-> items[q.key].present]
             /\ opseq' = 1 - opseq
             /\ lastWrite' = IF r.err = "nil"
                             THEN [lastWrite EXCEPT ![q.key] =
                                     IF q.api = "PutItem"
                                     THEN [kind |-> "commit", data |-> q.data,
                                           expiry |-> q.expiry]
                                     ELSE [kind |-> "delete", data |-> <<>>,
                                           expiry |-> 0]]
                             ELSE lastWrite
    /\ inflight' = [inflight EXCEPT ![c] = NoRequest]
    /\ UNCHANGED <<now, committed>>
    /\ UNCHANGED tableVars

ConcurrentNext ==
    \/ \E c \in Callers, data \in Payloads, expiry \in Times : SendCommit(c, data, expiry)
    \/ \E c \in Callers : SendDelete(c)
    \/ \E c \in Callers : Apply(c)

ConcurrentSpec == Init /\ [][ConcurrentNext]_vars

\* C13: under any interleaving of concurrent commits and deletes on one token
\* the table holds, under that token, either nothing (nothing applied yet, or
\* a delete applied last) or exactly the item of the commit the service
\* applied last: its payload together with its expiry, never the payload of
\* one commit with the expiry of another.
C13_LastWriterWins ==
    \A t \in Tokens :
        IF items[t].present
        THEN /\ lastWrite[t].kind = "commit"
             /\ items[t] = MarshalMap(t, lastWrite[t].data, lastWrite[t].expiry)
        ELSE lastWrite[t].kind \in {"none", "delete"}

\* C13's case: a caller sent a commit while another caller's commit was in
\* flight; the other's has been applied and has returned, with another payload
\* and another stored expiry than the one still in flight.
C13_Witness ==
    \E c \in Callers :
        /\ inflight[c].api = "PutItem"
        /\ inflight[c].over
        /\ \A d \in Callers \ {c} : inflight[d] = NoRequest
        /\ ret.op = "Commit"
        /\ ret.err = "nil"
        /\ items[Contended].present
        /\ items[Contended].Data # inflight[c].data
        /\ items[Contended].ttl # UnixTime(inflight[c].expiry)

====
